---- MODULE Spec2Model ----
(***************************************************************************)
(* The session store of webca: the registry `sessions` (session ID ->      *)
(* session map), the reader/writer lock `smutex`, the request goroutines   *)
(* that call SessionFor, Save and RemoveSession, and the reaper goroutine   *)
(* that runs cleanupSessions.                                               *)
(*                                                                         *)
(* A Go map is a reference: the registry, the local `s` of SessionFor and   *)
(* of the sweep, and the copy a caller holds are references into `heap`.    *)
(* An object is named by how it is reached: Reg(k) is the map stored under  *)
(* key k, Own(t) the private copy of goroutine t, Det(H) a map that was     *)
(* unlinked from the registry while the goroutines H still held it in `s`.  *)
(*                                                                         *)
(* Every goroutine advances one shared-memory access at a time.  Time is    *)
(* counted in units of 30 minutes.                                          *)
(***************************************************************************)
EXTENDS Integers, FiniteSets, Sequences, TLC

\* ------------------------------------------------------------ bounds
MaxTime == 2

\* --------------------------------------------------------- constants
SESSIONID == "goSessionId"
LASTUSED == "goLastUsed"
LOGGEDUSER == "LoggedUser"
\* 30 * time.Minute, in units of 30 minutes
MAXSESSIONAGE == 1

\* session IDs the random source can yield and a client can present
IDs == {"g1", "g2"}
NoCookie == "<none>"
\* what Id() returns for a map without the identifier key
EmptyId == ""
ReservedKeys == {SESSIONID, LASTUSED}
\* keys a handler stores in a session (a session is map[string]interface{})
PayloadKeys == {LOGGEDUSER, "k2"}
PayloadVals == {"u1", "u2"}

Requests == {"r1", "r2"}
Reaper == "reaper"
Threads == Requests \cup {Reaper}
None == "none"

VARIABLES
    now,        \* the clock time.Now() reads
    made,       \* FALSE while the variable `sessions` is nil
    sessions,   \* the registry: key -> reference of the stored map
    heap,       \* reference -> session map (key -> value)
    readers,    \* goroutines holding smutex in read mode
    writer,     \* the goroutine holding smutex in write mode, or None
    pc,         \* each goroutine's position
    cookie,     \* the session cookie of each in-flight request
    resp,       \* the cookies http.SetCookie wrote on each response
    sref,       \* the local `s` of SessionFor and of the sweep
    rec,        \* the session a handler got from SessionFor
    tnow,       \* the value of time.Now() read at line 84, before the store
    visited,    \* keys the sweep's range loop has produced
    clK,        \* the key the sweep's range loop is at
    fresh,      \* SessionFor created the entry (line 80 was reached)
    saved,      \* history: key -> the session last saved under it, while
                \* no delete of the key has followed
    pre,        \* history: the registry a Save in progress found
    crashed,    \* the process died (fatal error or unrecovered panic)
    gen,        \* a call of genId: the read of rand.Read and what genId
                \* returns for it
    old         \* history: for each request the payload keys of the record
                \* it holds, and for each ID those of the stored record,
                \* that were set before the session's entry was deleted

vars == <<now, made, sessions, heap, readers, writer, pc, cookie, resp,
          sref, rec, tnow, visited, clK, fresh, saved, pre, crashed, gen, old>>

\* ------------------------------------------------------ maps and heap
EmptyMap == [x \in {} |-> 0]
Put(m, k, v) == [x \in DOMAIN m \cup {k} |-> IF x = k THEN v ELSE m[x]]
Del(m, k) == [x \in DOMAIN m \ {k} |-> m[x]]

Nil == <<"nil">>
Reg(k) == <<"reg", k>>
Own(t) == <<"own", t>>
Det(H) == <<"det", H>>

\* session.clone: a new map with every key of s
clone(s) == [k \in DOMAIN s |-> s[k]]

\* the reference SessionFor hands to its caller: that of the clone
CloneAlias(t, src) == src
CloneRef(t, src) == Own(t)

\* session.Id
Id(s) == IF SESSIONID \in DOMAIN s THEN s[SESSIONID] ELSE EmptyId

\* session.expired, with the clock value read by time.Now()
expiredLate(s, t) == t - s[LASTUSED] > MAXSESSIONAGE
expired(s, t) == t - s[LASTUSED] >= MAXSESSIONAGE

\* goroutines other than d that still reach the map stored under k
Keepers(k, d) == {t \in Threads \ {d} : sref[t] = Reg(k) \/ rec[t] = Reg(k)}

\* the heap once the keys K are unlinked from the registry by goroutine d:
\* a map nobody holds is garbage, one still held lives on as Det(holders)
HeapUnlink(K, d) ==
    LET gone == {Reg(k) : k \in K} \cap DOMAIN heap
        held == {k \in K : Reg(k) \in DOMAIN heap /\ Keepers(k, d) # {}}
        keep == DOMAIN heap \ gone
        dets == {Det(Keepers(k, d)) : k \in held}
    IN [o \in keep \cup dets |->
          IF o \in keep THEN heap[o]
          ELSE heap[Reg(CHOOSE k \in held : Det(Keepers(k, d)) = o)]]

\* a reference once the keys K are unlinked by d
Retarget(r, K, d, t) ==
    IF r[1] = "reg" /\ r[2] \in K /\ t # d THEN Det(Keepers(r[2], d)) ELSE r

\* the heap once goroutine t lets go of o
HeapDrop(h, o, t) ==
    IF o \in DOMAIN h /\ o[1] = "det"
       /\ \A u \in Threads \ {t} : sref[u] # o /\ rec[u] # o
    THEN [x \in DOMAIN h \ {o} |-> h[x]]
    ELSE h

\* the registry by value: key -> the session stored under it
Registry == [k \in DOMAIN sessions |-> heap[sessions[k]]]

\* ------------------------------------------------------------ cookies
\* requestSessionId line 60
NewCookie(id) == [Name |-> SESSIONID, Value |-> id, Path |-> "/", MaxAge |-> 0]
\* r.Cookie: a cookie read from the request header has a name and a value
ReadCookie(id) == [Name |-> SESSIONID, Value |-> id, Path |-> "", MaxAge |-> 0]

\* http.SetCookie(w, c) writes c.String() as a Set-Cookie header: the
\* attributes the browser receives.  A Path attribute is written for a
\* non-empty Path; a Max-Age attribute is written for MaxAge > 0 (the
\* seconds) and for MaxAge < 0 (as Max-Age=0), none for MaxAge = 0.
SetCookieHeader(c) ==
    [Name |-> c.Name, Value |-> c.Value,
     HasPath |-> c.Path # "", Path |-> c.Path,
     HasMaxAge |-> c.MaxAge # 0,
     MaxAge |-> IF c.MaxAge > 0 THEN c.MaxAge ELSE 0]

\* --------------------------------------------------------------- lock
\* sync.RWMutex: RLock returns while no writer holds the lock, Lock while
\* nobody does.  (A Lock call that has to wait keeps later RLock calls
\* waiting too; a goroutine that waits does nothing else, so its call is
\* taken at the moment the lock is granted.)
CanRLock == writer = None
CanLock == writer = None /\ readers = {}

\* --------------------------------------------------------------- Init
\* the package variables and the goroutines at process start
InitSessions ==
    /\ now = 0
    /\ made = FALSE
    /\ sessions = EmptyMap
    /\ heap = EmptyMap
    /\ readers = {}
    /\ writer = None
    /\ pc = [t \in Threads |-> IF t = Reaper THEN "cl_sleep" ELSE "idle"]
    /\ cookie = [t \in Requests |-> NoCookie]
    /\ resp = [t \in Requests |-> {}]
    /\ sref = [t \in Threads |-> Nil]
    /\ rec = [t \in Threads |-> Nil]
    /\ tnow = [t \in Requests |-> 0]
    /\ visited = {}
    /\ clK = None
    /\ fresh = [t \in Requests |-> FALSE]
    /\ saved = EmptyMap
    /\ pre = EmptyMap
    /\ crashed = FALSE
    /\ old = [x \in Requests \cup IDs |-> {}]

\* no call of genId is followed byte by byte
NoGen == [pc |-> "none"]

Init == InitSessions /\ gen = NoGen

Goto(t, l) == pc' = [pc EXCEPT ![t] = l]

\* the clock advances
Tick ==
    /\ ~crashed
    /\ now < MaxTime
    /\ now' = now + 1
    /\ UNCHANGED <<made, sessions, heap, readers, writer, pc, cookie, resp,
                   sref, rec, tnow, visited, clK, fresh, saved, pre, crashed, gen, old>>

\* a request arrives, with the session cookie c or without one
NewRequest(t, c) ==
    /\ ~crashed
    /\ pc[t] = "idle"
    /\ cookie' = [cookie EXCEPT ![t] = c]
    /\ Goto(t, "handler")
    /\ UNCHANGED <<now, made, sessions, heap, readers, writer, resp,
                   sref, rec, tnow, visited, clK, fresh, saved, pre, crashed, gen, old>>

\* the request is over: the handler's session and the response are dropped
EndOfRequest(t) ==
    /\ Goto(t, "idle")
    /\ cookie' = [cookie EXCEPT ![t] = NoCookie]
    /\ resp' = [resp EXCEPT ![t] = {}]
    /\ rec' = [rec EXCEPT ![t] = Nil]
    /\ heap' = [o \in DOMAIN heap \ {Own(t)} |-> heap[o]]

\* the handler returns
EndRequest(t) ==
    /\ ~crashed
    /\ pc[t] = "handler"
    /\ EndOfRequest(t)
    /\ UNCHANGED <<now, made, sessions, readers, writer, sref, tnow,
                   visited, clK, fresh, saved, pre, crashed, gen>>
    /\ old' = [old EXCEPT ![t] = {}]

\* r.AddCookie: the cookie the request carries from then on
AddCookieDropped(c, id) == c
AddCookie(c, id) == id

\* SessionFor lines 73-75: RLock, then the test of sessions == nil
SessionForRLock(t) ==
    /\ CanRLock
    /\ readers' = readers \cup {t}
    /\ Goto(t, IF made THEN "sf_lookup" ELSE "sf_make")

\* SessionFor lines 69-75, requestSessionId with a cookie on the request
requestSessionIdFound(t) ==
    /\ ~crashed
    /\ pc[t] = "handler"
    /\ cookie[t] # NoCookie
    /\ SessionForRLock(t)
    /\ UNCHANGED <<now, made, sessions, heap, writer, cookie, resp,
                   sref, rec, tnow, visited, clK, fresh, saved, pre, crashed, gen, old>>

\* what rand.Read(uuid) can do: fill the 16 bytes (id names the hex string
\* of the bytes read), or report an error with fewer bytes read.  (rand.Read
\* returns n == len(b) if and only if err == nil.)
RandReads(I) ==
    {[n |-> 16, err |-> FALSE, id |-> i] : i \in I}
       \cup {[n |-> 0, err |-> TRUE, id |-> EmptyId]}

\* genId line 134: n != len(uuid) || err != nil
genIdFails(rd) == rd.n # 16 \/ rd.err

\* genId lines 135 and 140: the error genId returns
genIdErrNil(rd) == FALSE
genIdErr(rd) == IF genIdFails(rd) THEN rd.err ELSE FALSE

\* genId lines 135 and 140: the string genId returns
genIdValue(rd) == IF genIdFails(rd) THEN EmptyId ELSE rd.id

\* the 16 bytes rand.Read can put in uuid: the bytes at the indices 0, 4, 6
\* and 8 vary, the other bytes are 0xab
ByteVals == {0, 79, 128, 195, 255}
Uuids ==
    {[i \in 0..15 |-> CASE i = 0 -> a [] i = 4 -> b [] i = 6 -> c
                         [] i = 8 -> d [] OTHER -> 171] :
        a \in {0, 255}, b \in ByteVals, c \in ByteVals, d \in ByteVals}
UuidReads ==
    {[n |-> 16, err |-> FALSE, bytes |-> u] : u \in Uuids}
       \cup {[n |-> 0, err |-> TRUE, bytes |-> [i \in 0..15 |-> 0]]}

\* genId line 138: uuid[8] = 0x80
SetVariant(u) == [u EXCEPT ![8] = 128]
\* genId line 139: uuid[4] = 0x40
SetVersionByte6(u) == [u EXCEPT ![6] = 64 + (u[6] % 16)]
SetVersion(u) == [u EXCEPT ![4] = 64]

\* hex.EncodeToString: two lowercase hexadecimal digits for each byte, the
\* high half first; a string is the sequence of its characters
HexDigits == <<"0", "1", "2", "3", "4", "5", "6", "7",
               "8", "9", "a", "b", "c", "d", "e", "f">>
EncodeToString(b) ==
    [i \in 1..(2 * 16) |->
        LET x == b[(i - 1) \div 2]
        IN HexDigits[(IF i % 2 = 1 THEN x \div 16 ELSE x % 16) + 1]]

\* genId lines 131-141, on the read rd of rand.Read
genId(rd) ==
    IF genIdFails(rd)
    THEN [id |-> <<>>, err |-> rd.err]
    ELSE [id |-> EncodeToString(SetVersion(SetVariant(rd.bytes))),
          err |-> FALSE]

\* genId is called and returns
genIdCall ==
    /\ gen.pc = "call"
    /\ gen' = [gen EXCEPT !.pc = "done", !.out = genId(gen.rd)]
    /\ UNCHANGED <<now, made, sessions, heap, readers, writer, pc, cookie,
                   resp, sref, rec, tnow, visited, clK, fresh, saved, pre,
                   crashed, old>>

\* SessionFor lines 69-75, requestSessionId without a cookie: genId returns
\* an ID, which is set on the response and added to the request
requestSessionIdNew(t, rd) ==
    /\ ~crashed
    /\ pc[t] = "handler"
    /\ cookie[t] = NoCookie
    /\ ~genIdErr(rd)
    /\ resp' = [resp EXCEPT ![t] = @ \cup {NewCookie(genIdValue(rd))}]
    /\ cookie' = [cookie EXCEPT ![t] = AddCookie(@, genIdValue(rd))]
    /\ SessionForRLock(t)
    /\ UNCHANGED <<now, made, sessions, heap, writer,
                   sref, rec, tnow, visited, clK, fresh, saved, pre, crashed, gen, old>>

\* requestSessionId lines 56-59, SessionFor lines 70-72: genId returns an
\* error, which requestSessionId and SessionFor return
requestSessionIdError(t, rd) ==
    /\ ~crashed
    /\ pc[t] = "handler"
    /\ cookie[t] = NoCookie
    /\ genIdErr(rd)
    /\ Goto(t, "sf_err")
    /\ UNCHANGED <<now, made, sessions, heap, readers, writer, cookie, resp,
                   sref, rec, tnow, visited, clK, fresh, saved, pre, crashed, gen, old>>

\* the handler gives up on the error of SessionFor (handleError)
SessionForError(t) ==
    /\ ~crashed
    /\ pc[t] = "sf_err"
    /\ EndOfRequest(t)
    /\ UNCHANGED <<now, made, sessions, readers, writer, sref, tnow,
                   visited, clK, fresh, saved, pre, crashed, gen>>
    /\ old' = [old EXCEPT ![t] = {}]

\* SessionFor line 76: sessions = make(map[string]session)
SessionForMake(t) ==
    /\ ~crashed
    /\ pc[t] = "sf_make"
    /\ made' = TRUE
    /\ sessions' = EmptyMap
    /\ heap' = HeapUnlink(DOMAIN sessions, t)
    /\ sref' = [u \in Threads |-> Retarget(sref[u], DOMAIN sessions, t, u)]
    /\ rec' = [u \in Threads |-> Retarget(rec[u], DOMAIN sessions, t, u)]
    /\ saved' = EmptyMap
    /\ Goto(t, "sf_lookup")
    /\ UNCHANGED <<now, readers, writer, cookie, resp, tnow, visited, clK,
                   fresh, pre, crashed, gen, old>>

\* SessionFor lines 78-79: s := sessions[id]
SessionForLookup(t) ==
    /\ ~crashed
    /\ pc[t] = "sf_lookup"
    /\ LET id == cookie[t]
       IN IF id \in DOMAIN sessions
          THEN /\ sref' = [sref EXCEPT ![t] = sessions[id]]
               /\ Goto(t, "sf_now")
          ELSE /\ sref' = [sref EXCEPT ![t] = Nil]
               /\ Goto(t, "sf_insert")
    /\ UNCHANGED <<now, made, sessions, heap, readers, writer, cookie, resp,
                   rec, tnow, visited, clK, fresh, saved, pre, crashed, gen, old>>

\* SessionFor lines 80-82: a new map with the identifier key, stored under id
SessionForInsert(t) ==
    /\ ~crashed
    /\ pc[t] = "sf_insert"
    /\ LET id == cookie[t]
           K == {id} \cap DOMAIN sessions
       IN /\ heap' = Put(HeapUnlink(K, t), Reg(id), Put(EmptyMap, SESSIONID, id))
          /\ sessions' = Put(sessions, id, Reg(id))
          /\ sref' = [u \in Threads |->
                        IF u = t THEN Reg(id) ELSE Retarget(sref[u], K, t, u)]
          /\ rec' = [u \in Threads |-> Retarget(rec[u], K, t, u)]
    /\ fresh' = [fresh EXCEPT ![t] = TRUE]
    /\ Goto(t, "sf_now")
    /\ UNCHANGED <<now, made, readers, writer, cookie, resp, tnow, visited,
                   clK, saved, pre, crashed, gen>>
    /\ old' = [old EXCEPT ![cookie[t]] = {}]

\* SessionFor line 84, right-hand side: time.Now()
SessionForNow(t) ==
    /\ ~crashed
    /\ pc[t] = "sf_now"
    /\ tnow' = [tnow EXCEPT ![t] = now]
    /\ Goto(t, "sf_touch")
    /\ UNCHANGED <<now, made, sessions, heap, readers, writer, cookie, resp,
                   sref, rec, visited, clK, fresh, saved, pre, crashed, gen, old>>

\* SessionFor line 84, the store: s[LASTUSED] = ...
SessionForTouch(t) ==
    /\ ~crashed
    /\ pc[t] = "sf_touch"
    /\ heap' = [heap EXCEPT ![sref[t]] = Put(@, LASTUSED, tnow[t])]
    /\ Goto(t, "sf_clone")
    /\ UNCHANGED <<now, made, sessions, readers, writer, cookie, resp,
                   sref, rec, tnow, visited, clK, fresh, saved, pre, crashed, gen, old>>

\* SessionFor line 85: the value returned is s.clone()
SessionForClone(t) ==
    /\ ~crashed
    /\ pc[t] = "sf_clone"
    /\ rec' = [rec EXCEPT ![t] = CloneRef(t, sref[t])]
    /\ heap' = Put(heap, CloneRef(t, sref[t]), clone(heap[sref[t]]))
    /\ Goto(t, "sf_ret")
    /\ UNCHANGED <<now, made, sessions, readers, writer, cookie, resp,
                   sref, tnow, visited, clK, fresh, saved, pre, crashed, gen>>
    /\ old' = [old EXCEPT ![t] =
                 IF cookie[t] \in DOMAIN sessions /\ sessions[cookie[t]] = sref[t]
                 THEN old[cookie[t]]
                 ELSE DOMAIN heap[sref[t]] \cap PayloadKeys]

\* SessionFor line 74, the deferred RUnlock, and the return
SessionForReturn(t) ==
    /\ ~crashed
    /\ pc[t] = "sf_ret"
    /\ readers' = readers \ {t}
    /\ sref' = [sref EXCEPT ![t] = Nil]
    /\ heap' = HeapDrop(heap, sref[t], t)
    /\ tnow' = [tnow EXCEPT ![t] = 0]
    /\ fresh' = [fresh EXCEPT ![t] = FALSE]
    /\ Goto(t, "handler")
    /\ UNCHANGED <<now, made, sessions, writer, cookie, resp, rec,
                   visited, clK, saved, pre, crashed, gen, old>>

\* a handler sets a payload key of the session it holds (ui.go line 494)
SetKey(t, k, v) ==
    /\ ~crashed
    /\ pc[t] = "handler"
    /\ rec[t] # Nil
    /\ heap' = [heap EXCEPT ![rec[t]] = Put(@, k, v)]
    /\ UNCHANGED <<now, made, sessions, readers, writer, pc, cookie, resp,
                   sref, rec, tnow, visited, clK, fresh, saved, pre, crashed, gen>>
    /\ old' = [old EXCEPT ![t] = @ \ {k}]

\* a handler deletes a key of the session it holds
DelKey(t, k) ==
    /\ ~crashed
    /\ pc[t] = "handler"
    /\ rec[t] # Nil
    /\ k \in DOMAIN heap[rec[t]]
    /\ heap' = [heap EXCEPT ![rec[t]] = Del(@, k)]
    /\ UNCHANGED <<now, made, sessions, readers, writer, pc, cookie, resp,
                   sref, rec, tnow, visited, clK, fresh, saved, pre, crashed, gen>>
    /\ old' = [old EXCEPT ![t] = @ \ {k}]

\* the key Save stores under
SaveKey(s) == Id(s)

\* the map Save stores
SavedBare(s, prev) == [k \in DOMAIN s \cap ReservedKeys |-> s[k]]
SavedMerged(s, prev) == [k \in DOMAIN s \cup DOMAIN prev |->
                          IF k \in DOMAIN s THEN s[k] ELSE prev[k]]
Saved(s, prev) == clone(s)

\* s.Save() lines 111-113: smutex.Lock(), sessions[s.Id()] = s.clone()
\* (a nil `sessions` would panic here; a handler holds a session only after
\* SessionFor has made the registry)
SaveStore(t) ==
    /\ ~crashed
    /\ pc[t] = "handler"
    /\ rec[t] # Nil
    /\ CanLock
    /\ writer' = t
    /\ made
    /\ LET s == heap[rec[t]]
           k == SaveKey(s)
           K == {k} \cap DOMAIN sessions
           prev == IF k \in DOMAIN sessions THEN heap[sessions[k]] ELSE EmptyMap
       IN /\ heap' = Put(HeapUnlink(K, t), Reg(k), Saved(s, prev))
          /\ sessions' = Put(sessions, k, Reg(k))
          /\ sref' = [u \in Threads |-> Retarget(sref[u], K, t, u)]
          /\ rec' = [u \in Threads |-> Retarget(rec[u], K, t, u)]
          /\ saved' = Put(saved, k, s)
    /\ pre' = Registry
    /\ Goto(t, "sv_unlock")
    /\ UNCHANGED <<now, made, readers, cookie, resp, tnow, visited,
                   clK, fresh, crashed, gen>>
    /\ old' = IF Id(heap[rec[t]]) \in IDs
              THEN [old EXCEPT ![Id(heap[rec[t]])] =
                      old[t] \cap DOMAIN heap[rec[t]]]
              ELSE old

\* Save line 112: the deferred smutex.Unlock()
SaveUnlock(t) ==
    /\ ~crashed
    /\ pc[t] = "sv_unlock"
    /\ writer' = None
    /\ pre' = EmptyMap
    /\ Goto(t, "handler")
    /\ UNCHANGED <<now, made, sessions, heap, readers, cookie, resp,
                   sref, rec, tnow, visited, clK, fresh, saved, crashed, gen, old>>

\* RemoveSession is called
RemoveCall(t) ==
    /\ ~crashed
    /\ pc[t] = "handler"
    /\ Goto(t, "rm_start")
    /\ UNCHANGED <<now, made, sessions, heap, readers, writer, cookie, resp,
                   sref, rec, tnow, visited, clK, fresh, saved, pre, crashed, gen, old>>

\* RemoveSession lines 90-93: no session cookie, return
RemoveNoCookie(t) ==
    /\ ~crashed
    /\ pc[t] = "rm_start"
    /\ cookie[t] = NoCookie
    /\ Goto(t, "handler")
    /\ UNCHANGED <<now, made, sessions, heap, readers, writer, cookie, resp,
                   sref, rec, tnow, visited, clK, fresh, saved, pre, crashed, gen, old>>

\* the registry once key k is deleted
DeleteKept(m, k) == m
Delete(m, k) == [x \in DOMAIN m \ {k} |-> m[x]]

\* delete(sessions, k) by goroutine t
DeleteEntry(t, k) ==
    LET K == {k} \cap (DOMAIN sessions \ DOMAIN Delete(sessions, k))
    IN /\ sessions' = Delete(sessions, k)
       /\ heap' = HeapDrop(HeapUnlink(K, t), sref[t], t)
       /\ sref' = [u \in Threads |->
                     IF u = t THEN Nil ELSE Retarget(sref[u], K, t, u)]
       /\ rec' = [u \in Threads |-> Retarget(rec[u], K, t, u)]
       /\ saved' = Del(saved, k)
       /\ old' = IF k \notin DOMAIN sessions THEN old
                 ELSE [x \in DOMAIN old |->
                         IF x = k THEN {}
                         ELSE IF /\ x \in Requests /\ rec[x] # Nil
                                 /\ Id(heap[rec[x]]) = k
                              THEN old[x] \cup (DOMAIN heap[rec[x]] \cap PayloadKeys)
                              ELSE old[x]]

\* RemoveSession lines 94-96: RLock, delete(sessions, cookie.Value)
RemoveDelete(t) ==
    /\ ~crashed
    /\ pc[t] = "rm_start"
    /\ cookie[t] # NoCookie
    /\ CanRLock
    /\ readers' = readers \cup {t}
    /\ DeleteEntry(t, cookie[t])
    /\ Goto(t, "rm_ret")
    /\ UNCHANGED <<now, made, writer, cookie, resp, tnow, visited,
                   clK, fresh, pre, crashed, gen>>

\* RemoveSession lines 97-98 and the deferred RUnlock
RemoveReturn(t) ==
    /\ ~crashed
    /\ pc[t] = "rm_ret"
    /\ resp' = [resp EXCEPT ![t] =
                  @ \cup {[ReadCookie(cookie[t]) EXCEPT !.MaxAge = 0]}]
    /\ readers' = readers \ {t}
    /\ Goto(t, "handler")
    /\ UNCHANGED <<now, made, sessions, heap, writer, cookie,
                   sref, rec, tnow, visited, clK, fresh, saved, pre, crashed, gen, old>>

\* ReapSessions line 32 after the sleep, cleanupSessions line 38: RLock
CleanupRLock ==
    /\ ~crashed
    /\ pc[Reaper] = "cl_sleep"
    /\ CanRLock
    /\ readers' = readers \cup {Reaper}
    /\ visited' = {}
    /\ Goto(Reaper, "cl_iter")
    /\ UNCHANGED <<now, made, sessions, heap, writer, cookie, resp,
                   sref, rec, tnow, clK, fresh, saved, pre, crashed, gen, old>>

\* cleanupSessions line 41: the range loop produces the entry k, s
CleanupNext(k) ==
    /\ ~crashed
    /\ pc[Reaper] = "cl_iter"
    /\ k \in DOMAIN sessions \ visited
    /\ visited' = visited \cup {k}
    /\ clK' = k
    /\ sref' = [sref EXCEPT ![Reaper] = sessions[k]]
    /\ Goto(Reaper, "cl_expired")
    /\ UNCHANGED <<now, made, sessions, heap, readers, writer, cookie, resp,
                   rec, tnow, fresh, saved, pre, crashed, gen, old>>

\* what s.expired() does at the clock value t: the type assertion
\* s[LASTUSED].(time.Time) of line 127 panics on a map without the key
ExpiredSkipping(s, t) ==
    IF LASTUSED \notin DOMAIN s THEN "no"
    ELSE IF expired(s, t) THEN "yes" ELSE "no"
Expired(s, t) ==
    IF LASTUSED \notin DOMAIN s THEN "panic"
    ELSE IF expired(s, t) THEN "yes" ELSE "no"

\* cleanupSessions line 42: s.expired()
CleanupExpired ==
    /\ ~crashed
    /\ pc[Reaper] = "cl_expired"
    /\ Expired(heap[sref[Reaper]], now) # "panic"
    /\ IF Expired(heap[sref[Reaper]], now) = "yes"
       THEN /\ Goto(Reaper, "cl_delete")
            /\ UNCHANGED <<sref, heap, clK>>
       ELSE /\ Goto(Reaper, "cl_iter")
            /\ sref' = [sref EXCEPT ![Reaper] = Nil]
            /\ heap' = HeapDrop(heap, sref[Reaper], Reaper)
            /\ clK' = None
    /\ UNCHANGED <<now, made, sessions, readers, writer, cookie, resp,
                   rec, tnow, visited, fresh, saved, pre, crashed, gen, old>>

\* cleanupSessions lines 43-44: delete(sessions, k)
CleanupDelete ==
    /\ ~crashed
    /\ pc[Reaper] = "cl_delete"
    /\ DeleteEntry(Reaper, clK)
    /\ clK' = None
    /\ Goto(Reaper, "cl_iter")
    /\ UNCHANGED <<now, made, readers, writer, cookie, resp, tnow, visited,
                   fresh, pre, crashed, gen>>


\* cleanupSessions: the range loop is over, the deferred RUnlock (line 39)
CleanupReturn ==
    /\ ~crashed
    /\ pc[Reaper] = "cl_iter"
    /\ DOMAIN sessions \subseteq visited
    /\ readers' = readers \ {Reaper}
    /\ visited' = {}
    /\ Goto(Reaper, "cl_sleep")
    /\ UNCHANGED <<now, made, sessions, heap, writer, cookie, resp,
                   sref, rec, tnow, clK, fresh, saved, pre, crashed, gen, old>>

\* ------------------------------------------------------------- races
TheRegistry == <<"sessions">>
NoAccess == [obj |-> Nil, write |-> FALSE]
\* the map access goroutine t is about to make
Access(t) ==
    CASE pc[t] = "sf_lookup" -> [obj |-> TheRegistry, write |-> FALSE]
      [] pc[t] = "sf_insert" -> [obj |-> TheRegistry, write |-> TRUE]
      [] pc[t] = "sf_touch" -> [obj |-> sref[t], write |-> TRUE]
      [] pc[t] = "sf_clone" -> [obj |-> sref[t], write |-> FALSE]
      [] pc[t] = "rm_start" /\ cookie[t] # NoCookie /\ CanRLock
            -> [obj |-> TheRegistry, write |-> TRUE]
      [] pc[t] = "cl_iter" -> [obj |-> TheRegistry, write |-> FALSE]
      [] pc[t] = "cl_expired" -> [obj |-> sref[t], write |-> FALSE]
      [] pc[t] = "cl_delete" -> [obj |-> TheRegistry, write |-> TRUE]
      [] OTHER -> NoAccess

\* two goroutines are about to access the same map, one of them writing:
\* nothing orders the two accesses
Racing(t, u) ==
    /\ t # u
    /\ Access(t).obj # Nil
    /\ Access(t).obj = Access(u).obj
    /\ Access(t).write \/ Access(u).write

Crashed ==
    /\ now' = 0
    /\ made' = FALSE
    /\ sessions' = EmptyMap
    /\ heap' = EmptyMap
    /\ readers' = {}
    /\ writer' = None
    /\ pc' = [t \in Threads |-> "dead"]
    /\ cookie' = [t \in Requests |-> NoCookie]
    /\ resp' = [t \in Requests |-> {}]
    /\ sref' = [t \in Threads |-> Nil]
    /\ rec' = [t \in Threads |-> Nil]
    /\ tnow' = [t \in Requests |-> 0]
    /\ visited' = {}
    /\ clK' = None
    /\ fresh' = [t \in Requests |-> FALSE]
    /\ saved' = EmptyMap
    /\ pre' = EmptyMap
    /\ crashed' = TRUE
    /\ gen' = gen
    /\ old' = [x \in Requests \cup IDs |-> {}]

\* the Go runtime detects the unsynchronised map accesses of t and u and
\* ends the process ("fatal error: concurrent map writes", "concurrent map
\* read and map write"); when it does not, the accesses take effect one
\* after the other, as the steps above
MapFault(t, u) ==
    /\ ~crashed
    /\ Racing(t, u)
    /\ Crashed

\* SessionFor in request goroutine t, on the session IDs I: requests
\* arrive with or without a cookie, and end
Lookup(t, I) ==
    \/ \E c \in I \cup {NoCookie} : NewRequest(t, c)
    \/ EndRequest(t)
    \/ requestSessionIdFound(t)
    \/ \E rd \in RandReads(I) : requestSessionIdNew(t, rd)
    \/ \E rd \in RandReads(I) : requestSessionIdError(t, rd)
    \/ SessionForError(t)
    \/ SessionForMake(t)
    \/ SessionForLookup(t)
    \/ SessionForInsert(t)
    \/ SessionForNow(t)
    \/ SessionForTouch(t)
    \/ SessionForClone(t)
    \/ SessionForReturn(t)

\* the handler of goroutine t sets the payload keys P to values of V,
\* deletes them, and saves
Edit(t, P, V) ==
    \/ \E k \in P, v \in V : SetKey(t, k, v)
    \/ \E k \in P : DelKey(t, k)
    \/ SaveStore(t)
    \/ SaveUnlock(t)

\* RemoveSession in goroutine t
Remove(t) ==
    \/ RemoveCall(t)
    \/ RemoveNoCookie(t)
    \/ RemoveDelete(t)
    \/ RemoveReturn(t)

\* cleanupSessions line 42, expired() line 127: the entry has no last-used
\* key, the type assertion s[LASTUSED].(time.Time) panics in the reaper
\* goroutine and the process ends
CleanupPanic ==
    /\ ~crashed
    /\ pc[Reaper] = "cl_expired"
    /\ Expired(heap[sref[Reaper]], now) = "panic"
    /\ Crashed

\* the reaper goroutine
Reap ==
    \/ CleanupRLock
    \/ \E k \in DOMAIN sessions : CleanupNext(k)
    \/ CleanupExpired
    \/ CleanupPanic
    \/ CleanupDelete
    \/ CleanupReturn

\* the runtime's fault on unsynchronised map accesses
Fault == \E t, u \in Threads : MapFault(t, u)

\* Two concurrent requests on one session: lookups, changes, saves, removals.
Next ==
    \/ \E t \in Requests : Lookup(t, {"g1"})
    \/ \E t \in Requests : Edit(t, PayloadKeys, {"u1"})
    \/ \E t \in Requests : Remove(t)
    \/ Fault

Spec == Init /\ [][Next]_vars

\* One request goroutine and the reaper, two session IDs, the clock.
NextReap ==
    \/ Tick
    \/ Lookup("r1", IDs)
    \/ Edit("r1", {LOGGEDUSER}, {"u1"})
    \/ Remove("r1")
    \/ Reap
    \/ Fault

SpecReap == Init /\ [][NextReap]_vars

\* Two concurrent requests that only look the session up, and the clock.
NextLookup ==
    \/ Tick
    \/ \E t \in Requests : Lookup(t, {"g1"})
    \/ Fault

SpecLookup == Init /\ [][NextLookup]_vars

\* Two concurrent requests whose handlers may drop the identifier key.
NextAnon ==
    \/ \E t \in Requests : Lookup(t, {"g1"})
    \/ \E t \in Requests : Edit(t, {LOGGEDUSER}, {"u1"})
    \/ \E t \in Requests : DelKey(t, SESSIONID)
    \/ Fault

SpecAnon == Init /\ [][NextAnon]_vars

\* Two concurrent requests and the clock: one logs one of two users in and
\* saves, the other removes the session.
NextSave ==
    \/ Tick
    \/ \E t \in Requests : Lookup(t, {"g1"})
    \/ Edit("r1", {LOGGEDUSER}, PayloadVals)
    \/ Remove("r2")
    \/ Fault

SpecSave == Init /\ [][NextSave]_vars

\* Two concurrent requests on one session, one of which saves the copy it
\* holds, the reaper and the clock.
NextStale ==
    \/ Tick
    \/ \E t \in Requests : Lookup(t, {"g1"})
    \/ SaveStore("r1")
    \/ SaveUnlock("r1")
    \/ Reap
    \/ Fault

SpecStale == Init /\ [][NextStale]_vars

\* A call of genId on each read of the random source.
InitGenId ==
    /\ InitSessions
    /\ gen \in {[pc |-> "call", rd |-> r, out |-> [id |-> <<>>, err |-> FALSE]] :
                  r \in UuidReads}

NextGenId == genIdCall

SpecGenId == InitGenId /\ [][NextGenId]_vars

\* the steps of goroutine t inside SessionFor, Save and RemoveSession, from
\* the call to the return
Running(t) ==
    \/ SessionForMake(t)
    \/ SessionForLookup(t)
    \/ SessionForInsert(t)
    \/ SessionForNow(t)
    \/ SessionForTouch(t)
    \/ SessionForClone(t)
    \/ SessionForReturn(t)
    \/ SaveUnlock(t)
    \/ RemoveNoCookie(t)
    \/ RemoveDelete(t)
    \/ RemoveReturn(t)

\* One request goroutine and the reaper on one session, the clock.  The Go
\* scheduler lets every runnable goroutine run: a goroutine inside an
\* operation goes on, the reaper's loop (ReapSessions) sleeps and sweeps
\* forever, and a goroutine waiting for smutex gets it once it is released.
NextLive ==
    \/ Tick
    \/ Lookup("r1", {"g1"})
    \/ Edit("r1", {LOGGEDUSER}, {"u1"})
    \/ Remove("r1")
    \/ Reap
    \/ Fault

SpecLive ==
    /\ Init /\ [][NextLive]_vars
    /\ SF_vars(Reap)
    /\ SF_vars(Running("r1"))

\* ------------------------------------------------------------ claims
\* C1: every insert, overwrite or delete of a registry entry is made while
\* the goroutine holds smutex in write mode, and so no two goroutines are
\* ever about to access the same map with one of them writing.
\* (sf_make, sf_insert, cl_delete: about to change the registry under the
\* lock taken; rm_ret, sv_unlock: the change made, the lock still held.)
C1_MutationsHoldWriteLock ==
    /\ \A t \in Threads :
          pc[t] \in {"sf_make", "sf_insert", "cl_delete", "rm_ret", "sv_unlock"}
             => writer = t
    /\ \A t, u \in Threads : ~Racing(t, u)

\* C2: when SessionFor returns, the record it returns has the identifier
\* id, holds only the two reserved keys if the call created it, and the
\* record stored under id carries the time this call read as last-used.
C2_GetOrCreateRefreshes ==
    \A t \in Requests :
       pc[t] = "sf_ret" =>
          /\ Id(heap[rec[t]]) = cookie[t]
          /\ fresh[t] => DOMAIN heap[rec[t]] = ReservedKeys
          /\ cookie[t] \in DOMAIN sessions
          /\ LASTUSED \in DOMAIN heap[sessions[cookie[t]]]
          /\ heap[sessions[cookie[t]]][LASTUSED] = tnow[t]

\* C3: a handler step that sets, changes or deletes a key of the record a
\* SessionFor call returned leaves every registry entry as it was and leaves
\* the records held by the other goroutines as they were; the record a
\* caller holds is never a map the registry or another goroutine holds.
C3_CopyIsolation ==
    [][\A t \in Requests :
          /\ rec'[t] # Nil =>
                /\ rec'[t] \notin {sessions'[k] : k \in DOMAIN sessions'}
                /\ \A u \in Threads \ {t} : rec'[t] \notin {rec'[u], sref'[u]}
          /\ (/\ pc[t] = "handler" /\ pc'[t] = "handler"
              /\ rec[t] # Nil /\ rec'[t] = rec[t]
              /\ heap'[rec[t]] # heap[rec[t]])
             => /\ Registry' = Registry
                /\ \A u \in Requests \ {t} :
                      rec[u] # Nil =>
                         /\ rec'[u] = rec[u]
                         /\ heap'[rec[u]] = heap[rec[u]]]_vars

\* C3 happens: a handler has set LoggedUser on its copy and saved nothing,
\* the registry's record has no LoggedUser, and a concurrent SessionFor for
\* the same ID is returning a record without LoggedUser.
C3_Witness ==
    \E t, u \in Requests :
       /\ t # u /\ cookie[u] = cookie[t] /\ saved = EmptyMap
       /\ pc[t] = "handler" /\ rec[t] # Nil
       /\ LOGGEDUSER \in DOMAIN heap[rec[t]]
       /\ cookie[t] \in DOMAIN sessions
       /\ LOGGEDUSER \notin DOMAIN Registry[cookie[t]]
       /\ pc[u] = "sf_ret"
       /\ LOGGEDUSER \notin DOMAIN heap[rec[u]]

\* C4: when SessionFor returns for an ID whose registry entry was last
\* written by a Save (no removal, eviction or later Save since), the record
\* it returns has every key of the saved record with the saved value, the
\* last-used timestamp excepted.
C4_SaveOverwrites ==
    \A t \in Requests :
       (pc[t] = "sf_ret" /\ cookie[t] \in DOMAIN saved) =>
          \A k \in DOMAIN saved[cookie[t]] \ {LASTUSED} :
             /\ k \in DOMAIN heap[rec[t]]
             /\ heap[rec[t]][k] = saved[cookie[t]][k]

\* C4 happens: SessionFor returns the saved user "u2" with a last-used
\* timestamp later than the saved one.
C4_Witness ==
    \E t \in Requests :
       /\ pc[t] = "sf_ret" /\ cookie[t] \in DOMAIN saved
       /\ LOGGEDUSER \in DOMAIN saved[cookie[t]]
       /\ saved[cookie[t]][LOGGEDUSER] = "u2"
       /\ heap[rec[t]][LASTUSED] > saved[cookie[t]][LASTUSED]

\* C5: once Save has stored (its lock still held), the registry entry under
\* the record's ID equals the saved record exactly: no key of the entry it
\* replaced survives unless the saved record has it too.
C5_LastWriteWins ==
    \A t \in Requests :
       pc[t] = "sv_unlock" =>
          LET s == heap[rec[t]]
          IN /\ Id(s) \in DOMAIN sessions
             /\ Registry[Id(s)] = s
             /\ Id(s) \in DOMAIN pre =>
                   \A k \in DOMAIN pre[Id(s)] \ DOMAIN s :
                      k \notin DOMAIN Registry[Id(s)]

\* C5 happens: the entry a Save replaced held a payload key the saved record
\* lacks, while the saved record holds a payload key the replaced entry
\* lacked.
C5_Witness ==
    \E t \in Requests :
       /\ pc[t] = "sv_unlock" /\ Id(heap[rec[t]]) \in DOMAIN pre
       /\ \E k \in PayloadKeys :
             /\ k \in DOMAIN pre[Id(heap[rec[t]])]
             /\ k \notin DOMAIN heap[rec[t]]
       /\ \E k \in PayloadKeys :
             /\ k \notin DOMAIN pre[Id(heap[rec[t]])]
             /\ k \in DOMAIN heap[rec[t]]

\* C6: a Save of a record without identifier key (Id() returns "") stores
\* nothing: the registry is as it was before the call.
C6_SaveWithoutIdStoresNothing ==
    \A t \in Requests :
       (pc[t] = "sv_unlock" /\ Id(heap[rec[t]]) = EmptyId) =>
          /\ Registry = pre
          /\ EmptyId \notin DOMAIN sessions

\* C7: the entry the sweep is about to delete is one whose idle time has
\* reached MAXSESSIONAGE.
C7_SweepDeletesOnlyExpired ==
    (pc[Reaper] = "cl_delete" /\ clK \in DOMAIN sessions) =>
       /\ LASTUSED \in DOMAIN Registry[clK]
       /\ expired(Registry[clK], now)

\* C8: RemoveSession on a request with a session cookie leaves no registry
\* entry under the cookie's ID and every other entry as it was (all of the
\* registry when the ID had no entry); on a request without session cookie
\* it returns with the registry and the response as they were.  A SessionFor
\* that then finds no entry under the ID creates one holding the identifier
\* only, and returns a record without payload keys.
C8_Removal ==
    [][\A t \in Requests :
          /\ (pc[t] = "rm_start" /\ pc'[t] = "rm_ret") =>
                /\ cookie[t] # NoCookie
                /\ DOMAIN sessions' = DOMAIN sessions \ {cookie[t]}
                /\ \A k \in DOMAIN sessions' : Registry'[k] = Registry[k]
          /\ (pc[t] = "rm_start" /\ pc'[t] = "handler") =>
                /\ cookie[t] = NoCookie
                /\ Registry' = Registry
                /\ resp' = resp
          /\ (pc[t] = "sf_lookup" /\ pc'[t] = "sf_now") =>
                cookie[t] \in DOMAIN sessions
          /\ (pc[t] = "sf_insert" /\ pc'[t] = "sf_now") =>
                Registry'[cookie[t]] = [k \in {SESSIONID} |-> cookie[t]]
          /\ (pc'[t] = "sf_ret" /\ fresh'[t]) =>
                DOMAIN heap'[rec'[t]] = ReservedKeys]_vars

\* C8 happens: a request that holds a record with LoggedUser has removed the
\* session (its response carries the removal cookie), and a SessionFor of
\* another request for the same ID returns a newly created record.
C8_Witness ==
    \E t, u \in Requests :
       /\ t # u /\ cookie[u] = cookie[t]
       /\ pc[t] = "handler" /\ rec[t] # Nil
       /\ LOGGEDUSER \in DOMAIN heap[rec[t]]
       /\ [ReadCookie(cookie[t]) EXCEPT !.MaxAge = 0] \in resp[t]
       /\ pc[u] = "sf_ret" /\ fresh[u]
       /\ LOGGEDUSER \notin DOMAIN heap[rec[u]]

\* C9: a SessionFor call on a request without session cookie generates an
\* ID, adds it to the response as a cookie and attaches it to the request;
\* a call on a request that has the cookie keeps the ID and adds no cookie;
\* a call inserts a registry entry under the request's ID only, and the
\* record it returns has that ID.
C9_CookieRoundTrip ==
    [][\A t \in Requests :
          /\ (pc[t] = "handler" /\ pc'[t] \in {"sf_make", "sf_lookup"}) =>
                IF cookie[t] = NoCookie
                THEN /\ cookie'[t] \in IDs
                     /\ NewCookie(cookie'[t]) \notin resp[t]
                     /\ resp'[t] = resp[t] \cup {NewCookie(cookie'[t])}
                ELSE /\ cookie'[t] = cookie[t]
                     /\ resp'[t] = resp[t]
          /\ (pc[t] = "sf_insert" /\ pc'[t] = "sf_now") =>
                DOMAIN sessions' = DOMAIN sessions \cup {cookie[t]}
          /\ pc'[t] = "sf_ret" => Id(heap'[rec'[t]]) = cookie'[t]
          /\ \A c \in resp'[t] : c.Path = "/" => c.Value = cookie'[t]]_vars

\* C9 happens: the request's response carries the cookie of the ID this
\* request generated, and a later SessionFor call of the same request
\* returns the record that exists under that ID.
C9_Witness ==
    \E t \in Requests :
       /\ pc[t] = "sf_ret" /\ ~fresh[t]
       /\ NewCookie(cookie[t]) \in resp[t]
       /\ Id(heap[rec[t]]) = cookie[t]

\* C10: the record a SessionFor call is about to return to a caller that
\* holds the record of its previous call (no Save in between) equals that
\* record on every key but the last-used timestamp, and its timestamp is
\* not earlier.
C10_IdempotentCreation ==
    \A t \in Requests :
       (pc[t] = "sf_clone" /\ rec[t] # Nil) =>
          LET a == heap[rec[t]]
              b == heap[sref[t]]
          IN /\ DOMAIN a = DOMAIN b
             /\ \A k \in DOMAIN a \ {LASTUSED} : a[k] = b[k]
             /\ b[LASTUSED] >= a[LASTUSED]

\* C11: every record stored in the registry has the identifier key, and its
\* value is the key the record is stored under.
C11_IdentifierIsKey ==
    \A k \in DOMAIN sessions :
       /\ SESSIONID \in DOMAIN Registry[k]
       /\ Registry[k][SESSIONID] = k

\* C12: the record a SessionFor call finds in the registry (one it did not
\* create itself) carries a last-used timestamp, and the timestamp a call
\* is about to store is not earlier than the one the record carries.
C12_TimestampMonotonic ==
    \A t \in Requests :
       /\ (pc[t] \in {"sf_now", "sf_touch"} /\ ~fresh[t]) =>
             LASTUSED \in DOMAIN heap[sref[t]]
       /\ (pc[t] = "sf_touch" /\ LASTUSED \in DOMAIN heap[sref[t]]) =>
             heap[sref[t]][LASTUSED] <= tnow[t]

\* C13: when genId fails, SessionFor returns the error having taken no
\* lock, issued no cookie, attached none to the request and changed no
\* registry entry; every ID that is issued as a cookie is one a successful
\* read of the random source produced, never the empty string, and the
\* registry has no entry under the empty string.
C13_GenIdFailureIsAnError ==
    [][\A t \in Requests :
          /\ (pc[t] = "handler" /\ pc'[t] = "sf_err") =>
                /\ Registry' = Registry
                /\ resp' = resp
                /\ cookie' = cookie /\ cookie[t] = NoCookie
                /\ readers' = readers /\ writer' = writer
          /\ \A c \in resp'[t] : c.Path = "/" => c.Value \in IDs
          /\ cookie'[t] # EmptyId
          /\ EmptyId \notin DOMAIN sessions']_vars

\* C13 happens: SessionFor has returned the error of genId to a request
\* without session cookie, while the registry holds another request's
\* session.
C13_Witness ==
    \E t \in Requests :
       /\ pc[t] = "sf_err" /\ cookie[t] = NoCookie /\ resp[t] = {}
       /\ sessions # EmptyMap /\ t \notin readers

\* an entry under k whose idle time has reached MAXSESSIONAGE
Idle(k) ==
    /\ k \in DOMAIN sessions
    /\ LASTUSED \in DOMAIN Registry[k]
    /\ now - Registry[k][LASTUSED] >= MAXSESSIONAGE

\* C14: with the reaper running, an entry whose idle time has reached
\* MAXSESSIONAGE is eventually gone from the registry, unless a lookup
\* refreshes it first.
C14_IdleEntryEventuallyEvicted ==
    \A k \in IDs : Idle(k) ~> ~Idle(k)

\* C14 happens: a request looked its session up, went idle for
\* MAXSESSIONAGE without removing it, and the running sweep has visited the
\* entry, which is gone.
C14_Witness ==
    /\ pc[Reaper] = "cl_iter"
    /\ pc["r1"] = "handler" /\ rec["r1"] # Nil /\ resp["r1"] = {}
    /\ cookie["r1"] \in visited \ DOMAIN sessions
    /\ now - heap[rec["r1"]][LASTUSED] >= MAXSESSIONAGE

\* C15: the header of the cookie issued on creation has the path "/" and no
\* Max-Age attribute; the header of the cookie RemoveSession issues has the
\* same name and the attribute Max-Age=0.
C15_CookieAttributes ==
    \A t \in Requests :
       \A c \in resp[t] :
          LET h == SetCookieHeader(c)
          IN /\ h.Name = SESSIONID
             /\ IF c.Path = "/"
                THEN h.HasPath /\ h.Path = "/" /\ ~h.HasMaxAge
                ELSE h.HasMaxAge /\ h.MaxAge = 0

\* C16: when the sweep's expired() is called on a record without last-used
\* timestamp, the reaper's next step ends the process: the record is not
\* skipped, not kept as unexpired and not deleted.
C16_SweepPanicsWithoutTimestamp ==
    [][(/\ pc[Reaper] = "cl_expired"
        /\ LASTUSED \notin DOMAIN heap[sref[Reaper]]
        /\ pc'[Reaper] # "cl_expired")
       => crashed']_vars

\* C16 happens: the sweep's range loop has produced a record that has no
\* last-used timestamp and is about to call expired() on it.
C16_Witness ==
    /\ pc[Reaper] = "cl_expired"
    /\ clK \in DOMAIN sessions
    /\ sref[Reaper] = sessions[clK]
    /\ LASTUSED \notin DOMAIN Registry[clK]

\* C17: for a read that filled the 16 bytes, genId returns no error and a
\* string of 32 lowercase hexadecimal digits; of the bytes the string
\* decodes to, b[8] & 0xC0 = 0x80 and b[4] & 0xF0 = 0x40.
C17_IdFormat ==
    (gen.pc = "done" /\ gen.rd.n = 16 /\ ~gen.rd.err) =>
       LET h == gen.out.id
           Val(c) == (CHOOSE k \in 1..16 : HexDigits[k] = c) - 1
           b == [i \in 0..15 |-> 16 * Val(h[2 * i + 1]) + Val(h[2 * i + 2])]
       IN /\ ~gen.out.err
          /\ Len(h) = 32
          /\ \A i \in 1..32 : \E k \in 1..16 : h[i] = HexDigits[k]
          /\ (b[8] \div 64) * 64 = 128
          /\ (b[4] \div 16) * 16 = 64

\* C17 happens: genId has returned for a read whose bytes 4 and 8 had
\* neither the version nor the variant bits.
C17_Witness ==
    /\ gen.pc = "done" /\ ~gen.out.err
    /\ gen.rd.bytes[4] = 255 /\ gen.rd.bytes[8] = 0
    /\ Len(gen.out.id) = 32

\* C18: the sweep does not find expired an entry, last written by a Save,
\* of a session that a request got from SessionFor less than MAXSESSIONAGE
\* ago (the request still holds the record SessionFor returned to it).
C18_SweepSparesRecentlyUsed ==
    (/\ pc[Reaper] = "cl_expired"
     /\ clK \in DOMAIN sessions /\ sref[Reaper] = sessions[clK]
     /\ clK \in DOMAIN saved /\ Registry[clK] = saved[clK]
     /\ Expired(Registry[clK], now) = "yes")
    => \A t \in Requests :
          (rec[t] # Nil /\ Id(heap[rec[t]]) = clK) =>
             now - heap[rec[t]][LASTUSED] >= MAXSESSIONAGE

\* C19: the record that SessionFor finds in the registry and is about to
\* return holds no payload key that was set before a completed
\* RemoveSession, or a sweep's eviction, of the session.
C19_NoResurrection ==
    \A t \in Requests :
       (/\ pc[t] = "sf_clone"
        /\ cookie[t] \in DOMAIN sessions /\ sessions[cookie[t]] = sref[t])
       => old[cookie[t]] \cap DOMAIN heap[sref[t]] = {}

\* C20: a goroutine that is inside SessionFor, Save, RemoveSession or
\* cleanupSessions eventually is outside of it, holding smutex in no mode.
C20_OperationsComplete ==
    \A t \in Threads :
       (pc[t] \in {"sf_make", "sf_lookup", "sf_insert", "sf_now", "sf_touch",
                   "sf_clone", "sf_ret", "sv_unlock", "rm_start", "rm_ret",
                   "cl_iter", "cl_expired", "cl_delete"})
       ~> (/\ pc[t] \in {"idle", "handler", "sf_err", "cl_sleep"}
           /\ t \notin readers /\ writer # t)

====
